---- MODULE Spec2Model ----
(***************************************************************************)
(* Model of Assets/Game/build_characters.py: generate_characters expands   *)
(* the list of family templates into character records, numbers them,     *)
(* links spouses and parents, and writes the roster as one JSON document.  *)
(*                                                                         *)
(* A Python dict is a TLA+ record; a key the dict lacks is a field the     *)
(* record lacks, and reading it raises KeyError.  None is the empty tuple  *)
(* and a value v held by a nullable field is <<v>>.                        *)
(***************************************************************************)
EXTENDS Integers, Sequences, FiniteSets, TLC

\* ------------------------------------------------------------------ bounds
\* Longest list of family templates the build is run on.
MaxFamilies == 2

\* --------------------------------------------------------------- constants
START_YEAR == -248
male_birth_month == 3
female_birth_month == 7
male_birth_day == 12
female_birth_day == 6

None == <<>>
Some(v) == <<v>>

\* dict with one key removed / one key set
Without(d, key) == [k \in DOMAIN d \ {key} |-> d[k]]
With(d, key, val) == [k \in DOMAIN d \cup {key} |-> IF k = key THEN val ELSE d[k]]

\* ------------------------------------------------------- family templates
\* Three entries of the families list, as authored.
CorneliusScipio ==
  [ family |-> "Cornelius", branch |-> "Scipio", class |-> 0,
    husband |-> [praenomen |-> "Publius", cognomen |-> "Scipio Asina", birth |-> -285,
                 traits |-> <<"Naval", "Ambitious">>, wealth |-> 5600, influence |-> 8],
    wife |-> [nomen |-> "Cornelia", cognomen |-> "Asina", birth |-> -292,
              traits |-> <<"Pious", "Steadfast">>, wealth |-> 5400, influence |-> 6],
    sons |-> << [praenomen |-> "Gnaeus", cognomen |-> "Scipio", birth |-> -268,
                 traits |-> <<"Disciplined">>, wealth |-> 900, influence |-> 3],
                [praenomen |-> "Lucius", cognomen |-> "Scipio", birth |-> -266,
                 traits |-> <<"Studious">>, wealth |-> 860, influence |-> 3] >>,
    daughters |-> << [cognomen |-> "Scipio", birth |-> -264,
                      traits |-> <<"Graceful">>, wealth |-> 820, influence |-> 2],
                     [cognomen |-> "Scipio", birth |-> -261,
                      traits |-> <<"Curious">>, wealth |-> 790, influence |-> 2] >> ]

CorneliusLentulus ==
  [ family |-> "Cornelius", branch |-> "Lentulus", class |-> 0,
    husband |-> [praenomen |-> "Lucius", cognomen |-> "Lentulus", birth |-> -286,
                 traits |-> <<"Shrewd", "Charismatic">>, wealth |-> 5400, influence |-> 7],
    wife |-> [nomen |-> "Cornelia", cognomen |-> "Lentula", birth |-> -290,
              traits |-> <<"Diplomatic", "Pious">>, wealth |-> 5200, influence |-> 6],
    sons |-> << [praenomen |-> "Publius", cognomen |-> "Lentulus", birth |-> -269,
                 traits |-> <<"Astute">>, wealth |-> 840, influence |-> 3],
                [praenomen |-> "Gnaeus", cognomen |-> "Lentulus", birth |-> -266,
                 traits |-> <<"Confident">>, wealth |-> 820, influence |-> 3] >>,
    daughters |-> << [cognomen |-> "Lentula", birth |-> -263,
                      traits |-> <<"Cultured">>, wealth |-> 800, influence |-> 2],
                     [cognomen |-> "Lentula", birth |-> -260,
                      traits |-> <<"Cheerful">>, wealth |-> 780, influence |-> 2] >> ]

FabiaPicta ==
  [ family |-> "Fabia", branch |-> "Picta", class |-> 0,
    husband |-> [praenomen |-> "Gaius", cognomen |-> "Pictor", birth |-> -288,
                 traits |-> <<"Artistic", "Studious">>, wealth |-> 5000, influence |-> 6],
    wife |-> [nomen |-> "Fabia", cognomen |-> "Picta", birth |-> -292,
              traits |-> <<"Cultured", "Pious">>, wealth |-> 4800, influence |-> 5],
    sons |-> << [praenomen |-> "Quintus", cognomen |-> "Pictor", birth |-> -268,
                 traits |-> <<"Creative">>, wealth |-> 790, influence |-> 3],
                [praenomen |-> "Marcus", cognomen |-> "Pictor", birth |-> -265,
                 traits |-> <<"Diligent">>, wealth |-> 770, influence |-> 3] >>,
    daughters |-> << [cognomen |-> "Picta", birth |-> -262,
                      traits |-> <<"Artistic">>, wealth |-> 750, influence |-> 2],
                     [cognomen |-> "Picta", birth |-> -259,
                      traits |-> <<"Gentle">>, wealth |-> 730, influence |-> 2] >> ]

\* Templates the authored list does not hold, which the loop accepts or
\* rejects all the same: other numbers of children, a missing sub-template,
\* a class outside 0..2, a praenomen on a woman, a son without a birth year.
OneSon == With(With(CorneliusLentulus, "sons", <<CorneliusLentulus.sons[1]>>), "daughters", <<>>)
OneDaughter == With(With(FabiaPicta, "sons", <<>>), "daughters", <<FabiaPicta.daughters[2]>>)
NoWife == Without(CorneliusScipio, "wife")
NoHusband == Without(FabiaPicta, "husband")
BadClass == With(CorneliusLentulus, "class", 3)
NamedWife == With(FabiaPicta, "wife", With(FabiaPicta.wife, "praenomen", "Gaia"))
SonNoBirth == With(CorneliusScipio, "sons",
                   <<CorneliusScipio.sons[1], Without(CorneliusScipio.sons[2], "birth")>>)
ThreeSonsOneDaughter == With(With(FabiaPicta, "sons", FabiaPicta.sons \o <<CorneliusScipio.sons[1]>>), "daughters", <<FabiaPicta.daughters[1]>>)

FamilyPool ==
  { CorneliusScipio, CorneliusLentulus, FabiaPicta, OneSon, OneDaughter,
    NoWife, NoHusband, BadClass, NamedWife, SonNoBirth, ThreeSonsOneDaughter }

RECURSIVE SeqsUpTo(_, _)
SeqsUpTo(S, n) ==
  IF n = 0 THEN { <<>> }
  ELSE LET shorter == SeqsUpTo(S, n - 1)
       IN  shorter \cup { Append(s, x) : s \in { t \in shorter : Len(t) = n - 1 }, x \in S }

FamilyLists == SeqsUpTo(FamilyPool, MaxFamilies)

\* ------------------------------------------------------------------- state
VARIABLES
  families,    \* the module-level list of family templates (never assigned by the build)
  file,        \* what the output path holds
  pc,          \* position of the control in generate_characters
  characters,  \* local list of records
  next_id,     \* local id counter
  fi,          \* position of "for family in families"
  husband,     \* position in characters of the record the local husband refers to (0: unbound)
  wife,        \* position in characters of the record the local wife refers to (0: unbound)
  si,          \* position of "for son in family[sons]"
  di,          \* position of "for daughter in family[daughters]"
  wi,          \* number of records json.dump has written to the open file
  returned,    \* the value this invocation returned to its invoker (None: nothing yet)
  raised,      \* the exception this invocation raised to its invoker (None: none)
  entry_file,  \* history: what the output path held when this invocation started
  previous,    \* history: what the last earlier invocation that returned gave, and the file it left
  origin       \* history: for each record of characters, <<family position, role, position in its list>>

vars == << families, file, pc, characters, next_id, fi, husband, wife,
           si, di, wi, returned, raised, entry_file, previous, origin >>

\* ------------------------------------------------------------ the output file
Absent == [exists |-> FALSE, complete |-> FALSE, chunks |-> <<>>]
\* open(output_path, "w") leaves an empty file
Truncated == [exists |-> TRUE, complete |-> FALSE, chunks |-> <<>>]
Document(chunks) == [exists |-> TRUE, complete |-> TRUE, chunks |-> chunks]

\* ------------------------------------------------------------- add_character
\* age = birth_year - START_YEAR
AgeReversed(birth_year) == birth_year - START_YEAR

Age(birth_year) == START_YEAR - birth_year

\* a record whose Family is the nomen of its name
NewRecordFamilyFromName(id, name_data, gender, birth_year, wealth, influence, family, social_class, traits, spouse_id, father_id, mother_id) ==
  [ ID |-> id,
    RomanName |-> name_data,
    Gender |-> gender,
    BirthYear |-> birth_year,
    BirthMonth |-> IF gender = 0 THEN male_birth_month ELSE female_birth_month,
    BirthDay |-> IF gender = 0 THEN male_birth_day ELSE female_birth_day,
    Age |-> Age(birth_year),
    IsAlive |-> TRUE,
    SpouseID |-> spouse_id,
    FatherID |-> father_id,
    MotherID |-> mother_id,
    SiblingID |-> None,
    Family |-> name_data.Nomen,
    Class |-> social_class,
    Traits |-> traits,
    Wealth |-> wealth,
    Influence |-> influence ]

\* a record whose BirthDay is 12 whatever the gender
NewRecordOneBirthDay(id, name_data, gender, birth_year, wealth, influence, family, social_class, traits, spouse_id, father_id, mother_id) ==
  [ ID |-> id,
    RomanName |-> name_data,
    Gender |-> gender,
    BirthYear |-> birth_year,
    BirthMonth |-> IF gender = 0 THEN male_birth_month ELSE female_birth_month,
    BirthDay |-> male_birth_day,
    Age |-> Age(birth_year),
    IsAlive |-> TRUE,
    SpouseID |-> spouse_id,
    FatherID |-> father_id,
    MotherID |-> mother_id,
    SiblingID |-> None,
    Family |-> family,
    Class |-> social_class,
    Traits |-> traits,
    Wealth |-> wealth,
    Influence |-> influence ]

\* a record whose SiblingID is filled with the father's id
NewRecordWithSibling(id, name_data, gender, birth_year, wealth, influence, family, social_class, traits, spouse_id, father_id, mother_id) ==
  [ ID |-> id,
    RomanName |-> name_data,
    Gender |-> gender,
    BirthYear |-> birth_year,
    BirthMonth |-> IF gender = 0 THEN male_birth_month ELSE female_birth_month,
    BirthDay |-> IF gender = 0 THEN male_birth_day ELSE female_birth_day,
    Age |-> Age(birth_year),
    IsAlive |-> TRUE,
    SpouseID |-> spouse_id,
    FatherID |-> father_id,
    MotherID |-> mother_id,
    SiblingID |-> father_id,
    Family |-> family,
    Class |-> social_class,
    Traits |-> traits,
    Wealth |-> wealth,
    Influence |-> influence ]

NewRecord(id, name_data, gender, birth_year, wealth, influence, family, social_class, traits, spouse_id, father_id, mother_id) ==
  [ ID |-> id,
    RomanName |-> name_data,
    Gender |-> gender,
    BirthYear |-> birth_year,
    BirthMonth |-> IF gender = 0 THEN male_birth_month ELSE female_birth_month,
    BirthDay |-> IF gender = 0 THEN male_birth_day ELSE female_birth_day,
    Age |-> Age(birth_year),
    IsAlive |-> TRUE,
    SpouseID |-> spouse_id,
    FatherID |-> father_id,
    MotherID |-> mother_id,
    SiblingID |-> None,
    Family |-> family,
    Class |-> social_class,
    Traits |-> traits,
    Wealth |-> wealth,
    Influence |-> influence ]

\* next_id kept from the invocation before (a counter that is not local)
StaleNextId == next_id

\* next_id is left as it is (the increment is lost)
IncrementIdLost(id) == id

\* next_id += 2
IncrementIdByTwo(id) == id + 2

FreshNextId == 1
IncrementId(id) == id + 1

\* the father looked up by family name: the first husband record of that name
FatherIdByFamilyName ==
  LET named == { p \in 1..Len(characters) :
                   /\ characters[p].Family = families[fi].family
                   /\ characters[p].Gender = 0
                   /\ characters[p].FatherID = None }
  IN  characters[CHOOSE p \in named : \A q \in named : p <= q].ID

\* husband["ID"] and wife["ID"], read through the locals husband and wife
FatherId == characters[husband].ID

MotherId == characters[wife].ID

\* ------------------------------------------------------ the name of each role
\* the son's name takes the nomen of the wife's template
SonNameFromWife(family, son) ==
  [ Praenomen |-> Some(son.praenomen), Nomen |-> family.wife.nomen,
    Cognomen |-> son.cognomen, Gender |-> 0 ]

\* the wife's name keeps a praenomen her template carries
WifeNameKeepingPraenomen(family) ==
  [ Praenomen |-> IF "praenomen" \in DOMAIN family.wife THEN Some(family.wife.praenomen) ELSE None,
    Nomen |-> family.wife.nomen, Cognomen |-> family.wife.cognomen, Gender |-> 1 ]

\* the daughter's name takes the family nomen
DaughterNameFromFamily(family, daughter) ==
  [ Praenomen |-> None, Nomen |-> family.family,
    Cognomen |-> daughter.cognomen, Gender |-> 1 ]

HusbandName(family) ==
  [ Praenomen |-> Some(family.husband.praenomen), Nomen |-> family.family,
    Cognomen |-> family.husband.cognomen, Gender |-> 0 ]

WifeName(family) ==
  [ Praenomen |-> None, Nomen |-> family.wife.nomen,
    Cognomen |-> family.wife.cognomen, Gender |-> 1 ]

SonName(family, son) ==
  [ Praenomen |-> Some(son.praenomen), Nomen |-> family.family,
    Cognomen |-> son.cognomen, Gender |-> 0 ]

DaughterName(family, daughter) ==
  [ Praenomen |-> None, Nomen |-> family.wife.nomen,
    Cognomen |-> daughter.cognomen, Gender |-> 1 ]

\* ------------------------------------------------------------------ KeyError
\* The first key of keys, in the order the code reads them, that dict d lacks.
RECURSIVE MissingKey(_, _)
MissingKey(d, keys) ==
  IF keys = <<>> THEN None
  ELSE IF Head(keys) \notin DOMAIN d THEN Some(Head(keys))
  ELSE MissingKey(d, Tail(keys))

PersonKeys == <<"birth", "wealth", "influence", "traits">>

\* the husband step also reads the wife's sub-template before it creates anything
HusbandErrorReadingWife(family) ==
  LET top == MissingKey(family, <<"class", "family", "husband", "wife">>)
  IN  IF top # None THEN top
      ELSE MissingKey(family.husband, <<"praenomen", "cognomen">> \o PersonKeys)

HusbandError(family) ==
  LET top == MissingKey(family, <<"class", "family", "husband">>)
  IN  IF top # None THEN top
      ELSE MissingKey(family.husband, <<"praenomen", "cognomen">> \o PersonKeys)

WifeError(family) ==
  LET top == MissingKey(family, <<"wife">>)
  IN  IF top # None THEN top
      ELSE MissingKey(family.wife, <<"nomen", "cognomen">> \o PersonKeys)

SonError(son) == MissingKey(son, <<"praenomen", "cognomen">> \o PersonKeys)

DaughterError(family, daughter) ==
  LET w == WifeError(family)
  IN  IF w # None THEN w ELSE MissingKey(daughter, <<"cognomen">> \o PersonKeys)

\* The key whose read fails in the step the control is at, or None.
StepError ==
  CASE pc = "family" /\ fi <= Len(families) -> HusbandError(families[fi])
    [] pc = "wife" -> WifeError(families[fi])
    [] pc = "sons" ->
         IF "sons" \notin DOMAIN families[fi] THEN Some("sons")
         ELSE IF si <= Len(families[fi].sons) THEN SonError(families[fi].sons[si])
         ELSE None
    [] pc = "daughters" ->
         IF "daughters" \notin DOMAIN families[fi] THEN Some("daughters")
         ELSE IF di <= Len(families[fi].daughters)
              THEN DaughterError(families[fi], families[fi].daughters[di])
         ELSE None
    [] OTHER -> None

\* ---------------------------------------------------------------- json.dump
\* json.dump writes None as 0
JOptZero(v) == IF v = None THEN <<"num", 0>> ELSE <<"num", v[1]>>

JOpt(v) == IF v = None THEN <<"null">> ELSE <<"num", v[1]>>
JOptStr(v) == IF v = None THEN <<"null">> ELSE <<"str", v[1]>>

\* The JSON text json.dump writes for one record: a tagged value per field.
DumpRecord(r) ==
  [ ID |-> <<"num", r.ID>>,
    RomanName |-> [ Praenomen |-> JOptStr(r.RomanName.Praenomen),
                    Nomen |-> <<"str", r.RomanName.Nomen>>,
                    Cognomen |-> <<"str", r.RomanName.Cognomen>>,
                    Gender |-> <<"num", r.RomanName.Gender>> ],
    Gender |-> <<"num", r.Gender>>,
    BirthYear |-> <<"num", r.BirthYear>>,
    BirthMonth |-> <<"num", r.BirthMonth>>,
    BirthDay |-> <<"num", r.BirthDay>>,
    Age |-> <<"num", r.Age>>,
    IsAlive |-> <<"bool", r.IsAlive>>,
    SpouseID |-> JOpt(r.SpouseID),
    FatherID |-> JOpt(r.FatherID),
    MotherID |-> JOpt(r.MotherID),
    SiblingID |-> JOpt(r.SiblingID),
    Family |-> <<"str", r.Family>>,
    Class |-> <<"num", r.Class>>,
    Traits |-> <<"arr", [i \in 1..Len(r.Traits) |-> <<"str", r.Traits[i]>>]>>,
    Wealth |-> <<"num", r.Wealth>>,
    Influence |-> <<"num", r.Influence>> ]

\* ---------------------------------------------------------------- json.load
\* What json.load makes of the JSON text of a nullable field: null is None.
LoadOpt(j) == IF j[1] = "null" THEN None ELSE Some(j[2])

\* What json.load makes of the JSON text of one record.
LoadRecord(j) ==
  [ ID |-> j.ID[2],
    RomanName |-> [ Praenomen |-> LoadOpt(j.RomanName.Praenomen),
                    Nomen |-> j.RomanName.Nomen[2],
                    Cognomen |-> j.RomanName.Cognomen[2],
                    Gender |-> j.RomanName.Gender[2] ],
    Gender |-> j.Gender[2],
    BirthYear |-> j.BirthYear[2],
    BirthMonth |-> j.BirthMonth[2],
    BirthDay |-> j.BirthDay[2],
    Age |-> j.Age[2],
    IsAlive |-> j.IsAlive[2],
    SpouseID |-> LoadOpt(j.SpouseID),
    FatherID |-> LoadOpt(j.FatherID),
    MotherID |-> LoadOpt(j.MotherID),
    SiblingID |-> LoadOpt(j.SiblingID),
    Family |-> j.Family[2],
    Class |-> j.Class[2],
    Traits |-> [i \in 1..Len(j.Traits[2]) |-> j.Traits[2][i][2]],
    Wealth |-> j.Wealth[2],
    Influence |-> j.Influence[2] ]

\* What json.load makes of a complete document.
LoadDocument(f) == [Characters |-> [i \in 1..Len(f.chunks) |-> LoadRecord(f.chunks[i])]]

\* A document an earlier run of the script left at the output path.
OldDocument == Document(<< DumpRecord(NewRecord(1, HusbandName(FabiaPicta), 0, FabiaPicta.husband.birth, FabiaPicta.husband.wealth, FabiaPicta.husband.influence, "Fabia", 0, FabiaPicta.husband.traits, None, None, None)) >>)

\* ---------------------------------------------------------------------- Init
Init ==
  /\ families \in FamilyLists
  /\ file \in { Absent, OldDocument }
  /\ pc = "idle"
  /\ characters = <<>>
  /\ next_id = 1
  /\ fi = 0
  /\ husband = 0
  /\ wife = 0
  /\ si = 0
  /\ di = 0
  /\ wi = 0
  /\ returned = None
  /\ raised = None
  /\ entry_file = file
  /\ previous = None
  /\ origin = <<>>

\* ------------------------------------------------------------------- actions
\* the output file is opened for writing before the loop over the families
EnterOpeningFile ==
  /\ characters' = <<>>
  /\ next_id' = FreshNextId
  /\ origin' = <<>>
  /\ fi' = 1
  /\ husband' = 0
  /\ wife' = 0
  /\ si' = 0
  /\ di' = 0
  /\ wi' = 0
  /\ pc' = "family"
  /\ returned' = None
  /\ raised' = None
  /\ entry_file' = file
  /\ file' = Truncated
  /\ UNCHANGED families

\* def generate_characters(...): characters = []; next_id = 1; the loop starts.
Enter ==
  /\ characters' = <<>>
  /\ next_id' = FreshNextId
  /\ origin' = <<>>
  /\ fi' = 1
  /\ husband' = 0
  /\ wife' = 0
  /\ si' = 0
  /\ di' = 0
  /\ wi' = 0
  /\ pc' = "family"
  /\ returned' = None
  /\ raised' = None
  /\ entry_file' = file
  /\ UNCHANGED << families, file >>

\* the script runs: generate_characters() is invoked
Invoke ==
  /\ pc = "idle"
  /\ Enter
  /\ UNCHANGED previous

\* the invoker calls generate_characters() again once a call has returned
InvokeAgain ==
  /\ pc = "returned"
  /\ Enter
  /\ previous' = Some([output |-> returned[1], file |-> file])

\* characters.insert(0, record); next_id += 1
InsertedInFront(record, who) ==
  /\ characters' = <<record>> \o characters
  /\ next_id' = IncrementId(next_id)
  /\ origin' = <<who>> \o origin

\* characters.append(record); next_id += 1
Appended(record, who) ==
  /\ characters' = Append(characters, record)
  /\ next_id' = IncrementId(next_id)
  /\ origin' = Append(origin, who)

\* family[...] names a key the template lacks: KeyError leaves generate_characters.
RaiseKeyError ==
  /\ StepError # None
  /\ pc' = "raised"
  /\ raised' = Some(<<"KeyError", StepError[1]>>)
  /\ UNCHANGED << families, file, characters, next_id, fi, husband, wife, si, di, wi, origin, returned, entry_file, previous >>

\* the husband is created with the id his wife is going to get as SpouseID
AddHusbandExpectingWife ==
  /\ pc = "family"
  /\ fi <= Len(families)
  /\ StepError = None
  /\ LET family == families[fi]
         h == family.husband
     IN  Appended(NewRecord(next_id, HusbandName(family), 0, h.birth, h.wealth, h.influence, family.family, family.class, h.traits, Some(next_id + 1), None, None), <<fi, "husband", 1>>)
  /\ husband' = Len(characters) + 1
  /\ pc' = "wife"
  /\ UNCHANGED << families, file, fi, wife, si, di, wi, returned, raised, entry_file, previous >>

\* husband = add_character(husband_name, 0, ...)
AddHusband ==
  /\ pc = "family"
  /\ fi <= Len(families)
  /\ StepError = None
  /\ LET family == families[fi]
         h == family.husband
     IN  Appended(NewRecord(next_id, HusbandName(family), 0, h.birth, h.wealth, h.influence, family.family, family.class, h.traits, None, None, None), <<fi, "husband", 1>>)
  /\ husband' = Len(characters) + 1
  /\ pc' = "wife"
  /\ UNCHANGED << families, file, fi, wife, si, di, wi, returned, raised, entry_file, previous >>

\* wife = add_character(wife_name, 1, ...)
AddWife ==
  /\ pc = "wife"
  /\ StepError = None
  /\ LET family == families[fi]
         w == family.wife
     IN  Appended(NewRecord(next_id, WifeName(family), 1, w.birth, w.wealth, w.influence, family.family, family.class, w.traits, None, None, None), <<fi, "wife", 1>>)
  /\ wife' = Len(characters) + 1
  /\ pc' = "link_husband"
  /\ UNCHANGED << families, file, fi, husband, si, di, wi, returned, raised, entry_file, previous >>

\* the husband's SpouseID is not filled
LinkHusbandForgotten ==
  /\ pc = "link_husband"
  /\ pc' = "link_wife"
  /\ UNCHANGED << families, file, characters, next_id, fi, husband, wife, si, di, wi, origin, returned, raised, entry_file, previous >>

\* husband["SpouseID"] = wife["ID"]
LinkHusband ==
  /\ pc = "link_husband"
  /\ characters' = [characters EXCEPT ![husband].SpouseID = Some(characters[wife].ID)]
  /\ pc' = "link_wife"
  /\ UNCHANGED << families, file, next_id, fi, husband, wife, si, di, wi, origin, returned, raised, entry_file, previous >>

\* wife["SpouseID"] = wife["ID"]
LinkWifeToHerself ==
  /\ pc = "link_wife"
  /\ characters' = [characters EXCEPT ![wife].SpouseID = Some(characters[wife].ID)]
  /\ pc' = "sons"
  /\ si' = 1
  /\ UNCHANGED << families, file, next_id, fi, husband, wife, di, wi, origin, returned, raised, entry_file, previous >>

\* wife["SpouseID"] = husband["ID"]; the loop over the sons starts
LinkWife ==
  /\ pc = "link_wife"
  /\ characters' = [characters EXCEPT ![wife].SpouseID = Some(characters[husband].ID)]
  /\ pc' = "sons"
  /\ si' = 1
  /\ UNCHANGED << families, file, next_id, fi, husband, wife, di, wi, origin, returned, raised, entry_file, previous >>

\* adding a son also writes his id into the SiblingID of the son before him
AddSonLinkingSibling ==
  /\ pc = "sons"
  /\ StepError = None
  /\ si <= Len(families[fi].sons)
  /\ LET family == families[fi]
         son == family.sons[si]
         record == NewRecord(next_id, SonName(family, son), 0, son.birth, son.wealth, son.influence, family.family, family.class, son.traits, None, Some(FatherId), Some(MotherId))
         earlier == IF si > 1 THEN [characters EXCEPT ![Len(characters)].SiblingID = Some(next_id)] ELSE characters
     IN  /\ characters' = Append(earlier, record)
         /\ next_id' = IncrementId(next_id)
         /\ origin' = Append(origin, <<fi, "son", si>>)
  /\ si' = si + 1
  /\ UNCHANGED << families, file, pc, fi, husband, wife, di, wi, returned, raised, entry_file, previous >>

\* for son in family["sons"]: add_character(son_name, 0, ..., father_id, mother_id)
AddSon ==
  /\ pc = "sons"
  /\ StepError = None
  /\ si <= Len(families[fi].sons)
  /\ LET family == families[fi]
         son == family.sons[si]
     IN  Appended(NewRecord(next_id, SonName(family, son), 0, son.birth, son.wealth, son.influence, family.family, family.class, son.traits, None, Some(FatherId), Some(MotherId)), <<fi, "son", si>>)
  /\ si' = si + 1
  /\ UNCHANGED << families, file, pc, fi, husband, wife, di, wi, returned, raised, entry_file, previous >>

\* a family without sons is left at once, its daughters unread
EndSonsSkippingChildless ==
  /\ pc = "sons"
  /\ StepError = None
  /\ si > Len(families[fi].sons)
  /\ pc' = IF Len(families[fi].sons) = 0 THEN "family" ELSE "daughters"
  /\ fi' = IF Len(families[fi].sons) = 0 THEN fi + 1 ELSE fi
  /\ di' = 1
  /\ UNCHANGED << families, file, characters, next_id, husband, wife, si, wi, origin, returned, raised, entry_file, previous >>

\* the sons are exhausted: the loop over the daughters starts
EndSons ==
  /\ pc = "sons"
  /\ StepError = None
  /\ si > Len(families[fi].sons)
  /\ pc' = "daughters"
  /\ di' = 1
  /\ UNCHANGED << families, file, characters, next_id, fi, husband, wife, si, wi, origin, returned, raised, entry_file, previous >>

\* for daughter in family["daughters"]: add_character(daughter_name, 1, ..., father_id, mother_id)
AddDaughter ==
  /\ pc = "daughters"
  /\ StepError = None
  /\ di <= Len(families[fi].daughters)
  /\ LET family == families[fi]
         daughter == family.daughters[di]
     IN  Appended(NewRecord(next_id, DaughterName(family, daughter), 1, daughter.birth, daughter.wealth, daughter.influence, family.family, family.class, daughter.traits, None, Some(FatherId), Some(MotherId)), <<fi, "daughter", di>>)
  /\ di' = di + 1
  /\ UNCHANGED << families, file, pc, fi, husband, wife, si, wi, returned, raised, entry_file, previous >>

\* the daughters are exhausted: the loop over the families goes on
EndDaughters ==
  /\ pc = "daughters"
  /\ StepError = None
  /\ di > Len(families[fi].daughters)
  /\ pc' = "family"
  /\ fi' = fi + 1
  /\ UNCHANGED << families, file, characters, next_id, husband, wife, si, di, wi, origin, returned, raised, entry_file, previous >>

\* the write is skipped when there is no record to write
OpenFileIfAnyRecord ==
  /\ pc = "family"
  /\ fi > Len(families)
  /\ Len(characters) > 0
  /\ file' = Truncated
  /\ wi' = 0
  /\ pc' = "dump"
  /\ UNCHANGED << families, characters, next_id, fi, husband, wife, si, di, origin, returned, raised, entry_file, previous >>

\* output = {"Characters": characters}; open(output_path, "w") succeeds and empties the file
OpenFile ==
  /\ pc = "family"
  /\ fi > Len(families)
  /\ file' = Truncated
  /\ wi' = 0
  /\ pc' = "dump"
  /\ UNCHANGED << families, characters, next_id, fi, husband, wife, si, di, origin, returned, raised, entry_file, previous >>

\* open(output_path, "w") raises OSError: nothing at the path is touched
OpenFails ==
  /\ pc = "family"
  /\ fi > Len(families)
  /\ pc' = "raised"
  /\ raised' = Some(<<"OSError", "open">>)
  /\ UNCHANGED << families, file, characters, next_id, fi, husband, wife, si, di, wi, origin, returned, entry_file, previous >>

\* json.dump writes the text of the next record
DumpChunk ==
  /\ pc = "dump"
  /\ wi < Len(characters)
  /\ file' = [file EXCEPT !.chunks = Append(@, DumpRecord(characters[wi + 1]))]
  /\ wi' = wi + 1
  /\ UNCHANGED << families, pc, characters, next_id, fi, husband, wife, si, di, origin, returned, raised, entry_file, previous >>

\* a write of json.dump (or the flush when the with block closes the file) raises OSError
DumpFails ==
  /\ pc = "dump"
  /\ pc' = "raised"
  /\ raised' = Some(<<"OSError", "write">>)
  /\ UNCHANGED << families, file, characters, next_id, fi, husband, wife, si, di, wi, origin, returned, entry_file, previous >>

\* json.dump ends, the file is closed, the count is printed, return output
Return ==
  /\ pc = "dump"
  /\ wi = Len(characters)
  /\ file' = [file EXCEPT !.complete = TRUE]
  /\ pc' = "returned"
  /\ returned' = Some([Characters |-> characters])
  /\ UNCHANGED << families, characters, next_id, fi, husband, wife, si, di, wi, origin, raised, entry_file, previous >>

Next ==
  \/ Invoke
  \/ RaiseKeyError
  \/ AddHusband
  \/ AddWife
  \/ LinkHusband
  \/ LinkWife
  \/ AddSon
  \/ EndSons
  \/ AddDaughter
  \/ EndDaughters
  \/ OpenFile
  \/ OpenFails
  \/ DumpChunk
  \/ DumpFails
  \/ Return

Spec == Init /\ [][Next]_vars

\* The invoker may call generate_characters again after every return.
NextAgain == Next \/ InvokeAgain

SpecAgain == Init /\ [][NextAgain]_vars

\* ===================================================================== claims
\* The record list of the document the invocation returned.
Out == returned[1].Characters

Finished == pc = "returned"

\* Positions of characters the history attributes to family f in role r.
PositionsOf(f, r) == { p \in 1..Len(origin) : origin[p][1] = f /\ origin[p][2] = r }

HusbandPos(f) == CHOOSE p \in PositionsOf(f, "husband") : TRUE

WifePos(f) == CHOOSE p \in PositionsOf(f, "wife") : TRUE

\* The template a record comes from.
TemplateOf(who) ==
  LET family == families[who[1]]
  IN  CASE who[2] = "husband" -> family.husband
        [] who[2] = "wife" -> family.wife
        [] who[2] = "son" -> family.sons[who[3]]
        [] who[2] = "daughter" -> family.daughters[who[3]]

TwoSonsTwoDaughters(family) == Len(family.sons) = 2 /\ Len(family.daughters) = 2

\* The order of creation the templates prescribe: per family the husband, the
\* wife, the sons as listed, the daughters as listed.
FamilyOrder(f) ==
  << <<f, "husband", 1>>, <<f, "wife", 1>> >>
  \o [k \in 1..Len(families[f].sons) |-> <<f, "son", k>>]
  \o [k \in 1..Len(families[f].daughters) |-> <<f, "daughter", k>>]

RECURSIVE OrderUpTo(_)
OrderUpTo(f) == IF f = 0 THEN <<>> ELSE OrderUpTo(f - 1) \o FamilyOrder(f)

IsPrefix(s, t) == Len(s) <= Len(t) /\ \A i \in 1..Len(s) : s[i] = t[i]

\* C1: once generate_characters has returned on F families that all have two
\* sons and two daughters, the IDs of the output records in list order are
\* exactly 1, 2, ..., 6*F.
C1_IdsOneToSixF ==
  (Finished /\ \A f \in 1..Len(families) : TwoSonsTwoDaughters(families[f]))
    => /\ Len(Out) = 6 * Len(families)
       /\ \A i \in 1..Len(Out) : Out[i].ID = i

C1_Witness ==
  /\ Finished
  /\ Len(families) = MaxFamilies
  /\ \A f \in 1..Len(families) : TwoSonsTwoDaughters(families[f])
  /\ Len(Out) = 6 * MaxFamilies

\* C2: in the returned output the husband and the wife of every family hold
\* each other's ID as SpouseID, and no other record of the output holds
\* either of these two IDs as its SpouseID.
C2_SpousesReciprocal ==
  Finished =>
    \A f \in 1..Len(families) :
      LET h == Out[HusbandPos(f)]
          w == Out[WifePos(f)]
      IN  /\ h.SpouseID = Some(w.ID)
          /\ w.SpouseID = Some(h.ID)
          /\ \A p \in 1..Len(Out) :
               p \notin {HusbandPos(f), WifePos(f)}
                 => Out[p].SpouseID \notin {Some(h.ID), Some(w.ID)}

C2_Witness ==
  /\ Finished
  /\ Len(families) = 2
  /\ Out[HusbandPos(2)].SpouseID = Some(Out[WifePos(2)].ID)
  /\ Out[WifePos(2)].SpouseID = Some(Out[HusbandPos(2)].ID)

\* C3: in the returned output every son and daughter record holds as FatherID
\* the ID of the husband record, and as MotherID the ID of the wife record, of
\* the family template it was made from, also when families share a name.
C3_ParentsOfOwnFamily ==
  Finished =>
    \A p \in 1..Len(Out) :
      origin[p][2] \in {"son", "daughter"}
        => /\ Out[p].FatherID = Some(Out[HusbandPos(origin[p][1])].ID)
           /\ Out[p].MotherID = Some(Out[WifePos(origin[p][1])].ID)

C3_Witness ==
  /\ Finished
  /\ Len(families) = 2
  /\ families[1].family = families[2].family
  /\ \E p \in 1..Len(Out) :
       /\ origin[p] = <<2, "daughter", 1>>
       /\ Out[p].FatherID = Some(Out[HusbandPos(2)].ID)
       /\ Out[p].FatherID # Some(Out[HusbandPos(1)].ID)

\* C4: at every moment the records exist in the order of creation the
\* templates prescribe (family by family: husband, wife, sons as listed,
\* daughters as listed), each made from the template at its place, and the
\* returned list holds all of them in that order.
C4_CreationOrder ==
  /\ IsPrefix(origin, OrderUpTo(Len(families)))
  /\ Len(characters) = Len(origin)
  /\ \A p \in 1..Len(characters) :
       /\ characters[p].RomanName.Cognomen = TemplateOf(origin[p]).cognomen
       /\ characters[p].BirthYear = TemplateOf(origin[p]).birth
       /\ characters[p].Gender = (IF origin[p][2] \in {"husband", "son"} THEN 0 ELSE 1)
  /\ Finished => (origin = OrderUpTo(Len(families)) /\ Out = characters)

C4_Witness ==
  /\ Finished
  /\ Len(families) = 2
  /\ Len(families[1].sons) = 2
  /\ Len(families[1].daughters) = 2
  /\ origin[3] = <<1, "son", 1>>
  /\ origin[6] = <<1, "daughter", 2>>
  /\ origin[7] = <<2, "husband", 1>>

\* C5: SiblingID is null in every record, from its creation to the returned output.
C5_SiblingIdNull ==
  /\ \A p \in 1..Len(characters) : characters[p].SiblingID = None
  /\ Finished => \A p \in 1..Len(Out) : Out[p].SiblingID = None

C5_Witness ==
  /\ Finished
  /\ Len(Out) = 6 * MaxFamilies
  /\ Out[Len(Out)].SiblingID = None

\* C6: every record has Age = -248 - BirthYear with BirthYear the birth year
\* of its template; one family whose husband is born -285 and wife -292, with
\* two sons and two daughters, gives 6 records with IDs 1..6, record 1 of
\* Age 37 and SpouseID 2, record 2 of SpouseID 1, records 3 and 4 of
\* FatherID 1 and MotherID 2.
C6_AgeAndScenario ==
  /\ \A p \in 1..Len(characters) :
       /\ characters[p].BirthYear = TemplateOf(origin[p]).birth
       /\ characters[p].Age = (-248) - characters[p].BirthYear
  /\ ( /\ Finished
       /\ Len(families) = 1
       /\ families[1].husband.birth = -285
       /\ families[1].wife.birth = -292
       /\ TwoSonsTwoDaughters(families[1]) )
     => /\ Len(Out) = 6
        /\ \A i \in 1..6 : Out[i].ID = i
        /\ Out[1].Age = 37
        /\ Out[1].SpouseID = Some(2)
        /\ Out[2].SpouseID = Some(1)
        /\ \A i \in {3, 4} : Out[i].FatherID = Some(1) /\ Out[i].MotherID = Some(2)

C6_Witness ==
  /\ Finished
  /\ families = <<CorneliusScipio>>
  /\ Out[1].BirthYear = -285
  /\ Out[1].Age = 37
  /\ Out[4].MotherID = Some(2)

\* C7: an invocation that returns after an earlier invocation returned, on
\* the same family list, returns the same document and leaves the same file,
\* with IDs that start at 1 again.
C7_SameDocumentAgain ==
  (Finished /\ previous # None)
    => /\ returned[1] = previous[1].output
       /\ file = previous[1].file
       /\ \A i \in 1..Len(Out) : Out[i].ID = i

C7_Witness ==
  /\ Finished
  /\ previous # None
  /\ Len(Out) = 6 * MaxFamilies
  /\ Out[1].ID = 1
  /\ previous[1].output.Characters[1].ID = 1

\* C8: on an empty family list the build creates no record and raises no
\* KeyError, goes on to the write, and what it returns and writes is the
\* document whose Characters field is the empty list.
C8_EmptyFamilyList ==
  families = <<>>
    => /\ characters = <<>>
       /\ (raised # None => raised[1][1] = "OSError")
       /\ (pc = "family" => ENABLED OpenFile)
       /\ Finished => (returned = Some([Characters |-> <<>>]) /\ file = Document(<<>>))

C8_Witness ==
  /\ families = <<>>
  /\ Finished
  /\ Out = <<>>
  /\ file = Document(<<>>)

\* The invocation ended with the KeyError of a family template without a wife entry.
FailedOnWife == raised = Some(<<"KeyError", "wife">>)

RecordsOfFamily(f) == { p \in 1..Len(origin) : origin[p][1] = f }

\* C9 as stated: when a family template has no wife entry the build fails
\* with no record of that family created or numbered, and no document is
\* written or returned.
C9_NoRecordOfTheFamily ==
  FailedOnWife
    => /\ RecordsOfFamily(fi) = {}
       /\ returned = None
       /\ file = entry_file

\* C9 amended: when a family template has no wife entry the build fails as a
\* whole after the husband record of that family, and no other record of it,
\* has been created and numbered; no document is written or returned.
C9_HusbandOnlyThenFailure ==
  FailedOnWife
    => /\ RecordsOfFamily(fi) = {Len(characters)}
       /\ origin[Len(characters)] = <<fi, "husband", 1>>
       /\ characters[Len(characters)].ID = Len(characters)
       /\ characters[Len(characters)].SpouseID = None
       /\ next_id = Len(characters) + 1
       /\ returned = None
       /\ file = entry_file

C9_Witness ==
  /\ FailedOnWife
  /\ Len(families) = 2
  /\ fi = 2
  /\ Len(characters) = 7
  /\ origin[7] = <<2, "husband", 1>>

\* C10 as stated: when the write of the document fails, at open or part-way,
\* the invocation ends with that error and the output path holds what it
\* held before or a complete document.
C10_NoPartialFile ==
  (raised # None /\ raised[1][1] = "OSError")
    => /\ pc = "raised"
       /\ returned = None
       /\ (file = entry_file \/ file.complete)

\* C11 as stated: a family template whose class lies outside {0, 1, 2} makes
\* the whole build fail, and no record with such a Class is in the output.
C11_OutOfRangeClassRejected ==
  /\ (\E f \in 1..Len(families) : "class" \in DOMAIN families[f] /\ families[f].class \notin {0, 1, 2})
       => returned = None
  /\ Finished => \A p \in 1..Len(Out) : Out[p].Class \in {0, 1, 2}

RoleOf(p) == origin[p][2]

FamilyOf(p) == families[origin[p][1]]

\* C13: the name nomen of every son is the family field of his family
\* template, and the name nomen of every daughter and of the wife is the
\* nomen of the wife's template, also when that differs from the family field.
C13_NomenBySex ==
  \A p \in 1..Len(characters) :
    /\ RoleOf(p) = "son" => characters[p].RomanName.Nomen = FamilyOf(p).family
    /\ RoleOf(p) \in {"wife", "daughter"} => characters[p].RomanName.Nomen = FamilyOf(p).wife.nomen

C13_Witness ==
  /\ Finished
  /\ \E p \in 1..Len(Out) :
       /\ RoleOf(p) = "daughter"
       /\ FamilyOf(p).family = "Cornelius"
       /\ Out[p].RomanName.Nomen = "Cornelia"
  /\ \E p \in 1..Len(Out) : RoleOf(p) = "son" /\ Out[p].RomanName.Nomen = "Cornelius"

\* C14: the name's Praenomen is null exactly in the female records: null for
\* every wife and daughter, also when her template carries a praenomen, and
\* the praenomen of his template for every husband and son.
C14_PraenomenNullIffFemale ==
  \A p \in 1..Len(characters) :
    /\ (characters[p].RomanName.Praenomen = None) <=> (characters[p].Gender = 1)
    /\ RoleOf(p) \in {"wife", "daughter"} => characters[p].RomanName.Praenomen = None
    /\ RoleOf(p) \in {"husband", "son"}
         => characters[p].RomanName.Praenomen = Some(TemplateOf(origin[p]).praenomen)

C14_Witness ==
  /\ Finished
  /\ \E p \in 1..Len(Out) :
       /\ RoleOf(p) = "wife"
       /\ "praenomen" \in DOMAIN FamilyOf(p).wife
       /\ Out[p].RomanName.Praenomen = None
  /\ \E p \in 1..Len(Out) : RoleOf(p) = "son" /\ Out[p].RomanName.Praenomen = Some("Quintus")

\* C15: a record of Gender 0 has BirthMonth 3 and BirthDay 12, a record of
\* Gender 1 has BirthMonth 7 and BirthDay 6; husbands and sons have Gender 0,
\* wives and daughters Gender 1.
C15_BirthDateByGender ==
  \A p \in 1..Len(characters) :
    /\ characters[p].Gender = (IF RoleOf(p) \in {"husband", "son"} THEN 0 ELSE 1)
    /\ characters[p].RomanName.Gender = characters[p].Gender
    /\ characters[p].Gender = 0 => (characters[p].BirthMonth = 3 /\ characters[p].BirthDay = 12)
    /\ characters[p].Gender = 1 => (characters[p].BirthMonth = 7 /\ characters[p].BirthDay = 6)

C15_Witness ==
  /\ Finished
  /\ Len(Out) = 6
  /\ Out[1].Gender = 0 /\ Out[1].BirthMonth = 3 /\ Out[1].BirthDay = 12
  /\ Out[2].Gender = 1 /\ Out[2].BirthMonth = 7 /\ Out[2].BirthDay = 6
  /\ Out[6].Gender = 1 /\ Out[6].BirthDay = 6

\* A step changes the record at position p only by filling the null SpouseID
\* of a husband whose wife is the last record created.
HusbandBackfill(p) ==
  /\ RoleOf(p) = "husband"
  /\ characters[p].SpouseID = None
  /\ p + 1 = Len(characters)
  /\ Len(characters') = Len(characters)
  /\ characters'[p] = [characters[p] EXCEPT !.SpouseID = Some(characters[p + 1].ID)]

\* A step changes the record at position p only by filling the null SpouseID
\* of the wife, the last record created, once her husband's is filled.
WifeBackfill(p) ==
  /\ RoleOf(p) = "wife"
  /\ characters[p].SpouseID = None
  /\ p = Len(characters)
  /\ characters[p - 1].SpouseID = Some(characters[p].ID)
  /\ Len(characters') = Len(characters)
  /\ characters'[p] = [characters[p] EXCEPT !.SpouseID = Some(characters[p - 1].ID)]

\* No step removes a record, and a step that creates a record finds the
\* SpouseID of every earlier husband and wife filled, unless it creates the
\* wife of the husband created last.
NothingRemovedSpousesLinked ==
  /\ Len(characters') >= Len(characters)
  /\ Len(characters') > Len(characters)
       => \A p \in 1..Len(characters) :
            (RoleOf(p) \in {"husband", "wife"} /\ characters[p].SpouseID = None)
              => /\ p = Len(characters)
                 /\ RoleOf(p) = "husband"
                 /\ origin'[Len(origin')][2] = "wife"

\* C16 as stated: no record is ever removed and no field of a record changes
\* after its creation, except the husband's SpouseID, null at creation and set
\* once, right after his wife's record is created and before any other record.
C16_OnlyHusbandBackfilled ==
  [][ /\ NothingRemovedSpousesLinked
      /\ \A p \in 1..Len(characters) : characters'[p] # characters[p] => HusbandBackfill(p)
    ]_vars

\* C16 amended: no record is ever removed and no field of a record changes
\* after its creation, except the SpouseID of the husband and of the wife,
\* both null at creation and each set once, the husband's and then the wife's,
\* right after the wife's record is created and before any other record.
C16_OnlySpousesBackfilled ==
  [][ /\ NothingRemovedSpousesLinked
      /\ \A p \in 1..Len(characters) :
           characters'[p] # characters[p] => (HusbandBackfill(p) \/ WifeBackfill(p))
    ]_vars

C16_Witness ==
  /\ pc = "daughters"
  /\ fi = 2
  /\ di = 2
  /\ characters[husband].SpouseID = Some(characters[wife].ID)
  /\ characters[wife].SpouseID = Some(characters[husband].ID)
  /\ characters[1].SpouseID = Some(2)
  /\ characters[2].SpouseID = Some(1)

\* The control is in the loop over the families.
Building == pc \in {"family", "wife", "link_husband", "link_wife", "sons", "daughters"}

\* C17: while the records are built nothing is written: the output path is
\* touched only once the records of all families exist, so a failure while a
\* family is processed leaves the path as it was and returns no document.
C17_NoWriteBeforeAllBuilt ==
  /\ (Building \/ (raised # None /\ raised[1][1] = "KeyError"))
       => (file = entry_file /\ returned = None)
  /\ file # entry_file
       => (fi > Len(families) /\ origin = OrderUpTo(Len(families)))

C17_Witness ==
  /\ raised # None
  /\ raised[1][1] = "KeyError"
  /\ fi = 2
  /\ Len(characters) >= 6
  /\ entry_file = OldDocument
  /\ file = OldDocument

\* The family list holds authored entries of the families list only.
GivenData == \A f \in 1..Len(families) : families[f] \in {CorneliusScipio, CorneliusLentulus, FabiaPicta}

NomenAt(p) == Out[p].RomanName.Nomen

\* C18 as stated: in the output built from the given family data all members
\* of a family carry one name nomen, the wife's recorded nomen being the
\* family nomen.
C18_OneNomenPerFamily ==
  (Finished /\ GivenData)
    => /\ \A f \in 1..Len(families) : families[f].wife.nomen = families[f].family
       /\ \A p, q \in 1..Len(Out) : origin[p][1] = origin[q][1] => NomenAt(p) = NomenAt(q)

\* C18 amended: in the output built from the given family data the husband
\* and the sons of a family carry the family nomen and the wife and the
\* daughters carry the wife's recorded nomen; all six carry one nomen exactly
\* in the families whose wife's nomen is spelled like the family nomen.
C18_NomenPerFamilyAndSex ==
  (Finished /\ GivenData)
    => \A f \in 1..Len(families) :
         /\ \A p \in RecordsOfFamily(f) :
              NomenAt(p) = (IF Out[p].Gender = 0 THEN families[f].family ELSE families[f].wife.nomen)
         /\ (\A p, q \in RecordsOfFamily(f) : NomenAt(p) = NomenAt(q))
              <=> (families[f].wife.nomen = families[f].family)

C18_Witness ==
  /\ Finished
  /\ families = <<CorneliusScipio, FabiaPicta>>
  /\ NomenAt(1) = "Cornelius"
  /\ NomenAt(2) = "Cornelia"
  /\ NomenAt(3) = "Cornelius"
  /\ NomenAt(6) = "Cornelia"
  /\ \A p \in 7..12 : NomenAt(p) = "Fabia"

\* C19: every record, the wife and the daughters included, has as Family the
\* family field and as Class the class of its family template, and as Traits
\* (in order), Wealth and Influence those of the template of the person.
C19_FamilyClassAndCopies ==
  \A p \in 1..Len(characters) :
    /\ characters[p].Family = FamilyOf(p).family
    /\ characters[p].Class = FamilyOf(p).class
    /\ characters[p].Traits = TemplateOf(origin[p]).traits
    /\ characters[p].Wealth = TemplateOf(origin[p]).wealth
    /\ characters[p].Influence = TemplateOf(origin[p]).influence

C19_Witness ==
  /\ Finished
  /\ families = <<CorneliusScipio, BadClass>>
  /\ Out[2].RomanName.Nomen = "Cornelia"
  /\ Out[2].Family = "Cornelius"
  /\ Out[2].Traits = <<"Pious", "Steadfast">>
  /\ Out[6].Family = "Cornelius"
  /\ Out[6].Wealth = 790
  /\ Out[1].Class = 0
  /\ Out[12].Class = 3

\* Every key the build reads is in the family template.
WellFormed(family) ==
  /\ {"class", "family", "husband", "wife", "sons", "daughters"} \subseteq DOMAIN family
  /\ {"praenomen", "cognomen", "birth", "wealth", "influence", "traits"} \subseteq DOMAIN family.husband
  /\ {"nomen", "cognomen", "birth", "wealth", "influence", "traits"} \subseteq DOMAIN family.wife
  /\ \A k \in 1..Len(family.sons) :
       {"praenomen", "cognomen", "birth", "wealth", "influence", "traits"} \subseteq DOMAIN family.sons[k]
  /\ \A k \in 1..Len(family.daughters) :
       {"cognomen", "birth", "wealth", "influence", "traits"} \subseteq DOMAIN family.daughters[k]

\* Number of children, and of members, of the first f families.
RECURSIVE Children(_)
Children(f) ==
  IF f = 0 THEN 0 ELSE Children(f - 1) + Len(families[f].sons) + Len(families[f].daughters)

Members(f) == 2 * f + Children(f)

\* The build of well-formed families raises no KeyError, and the returned
\* list has one record per member, with IDs 1..N.
CountIsSumOfMembers ==
  /\ (\A f \in 1..Len(families) : WellFormed(families[f]))
       => (raised # None => raised[1][1] = "OSError")
  /\ Finished
       => /\ Len(Out) = Members(Len(families))
          /\ \A i \in 1..Len(Out) : Out[i].ID = i

\* C20 as stated: with any number of sons and daughters the build succeeds
\* with 2 + sons + daughters records per family and IDs 1..N, and the count
\* is 6 per family only when every family has two sons and two daughters.
C20_SixOnlyForTwoAndTwo ==
  /\ CountIsSumOfMembers
  /\ (Finished /\ Len(Out) = 6 * Len(families))
       => \A f \in 1..Len(families) : TwoSonsTwoDaughters(families[f])

\* C20 amended: with any number of sons and daughters the build succeeds
\* with 2 + sons + daughters records per family and IDs 1..N, and the count
\* is 6 per family exactly when the families have 4 children each on
\* average, two sons and two daughters being one such case.
C20_CountBySonsAndDaughters ==
  /\ CountIsSumOfMembers
  /\ Finished
       => /\ (Len(Out) = 6 * Len(families)) <=> (Children(Len(families)) = 4 * Len(families))
          /\ (\A f \in 1..Len(families) : TwoSonsTwoDaughters(families[f]))
               => Len(Out) = 6 * Len(families)

C20_Witness ==
  /\ Finished
  /\ families = <<OneDaughter, ThreeSonsOneDaughter>>
  /\ Len(Out) = 9
  /\ Out[3].ID = 3
  /\ RoleOf(3) = "daughter"
  /\ Out[9].ID = 9

\* The counter is one more than the number of records, and the record at
\* position i has ID i.
CounterMatchesList ==
  /\ next_id = Len(characters) + 1
  /\ \A i \in 1..Len(characters) : characters[i].ID = i

\* A step leaves the counter and the length of the list alone, or appends one
\* record and adds one to the counter.
CounterStep ==
  \/ (next_id' = next_id /\ Len(characters') = Len(characters))
  \/ (next_id' = next_id + 1 /\ Len(characters') = Len(characters) + 1)

\* C21: at every point of the build the id counter is the number of records
\* created so far plus one; it goes up by exactly one with each appended
\* record and is never lowered or reset, so the record at position i has ID i.
C21_CounterFollowsList == []CounterMatchesList /\ [][CounterStep]_vars

C21_Witness ==
  /\ pc = "sons"
  /\ fi = 2
  /\ si = 2
  /\ Len(characters) = 9
  /\ next_id = 10
  /\ characters[9].ID = 9

\* The IDs of the records the list holds.
IdsPresent == { characters[q].ID : q \in 1..Len(characters) }

\* C22: at every state of the build every non-null SpouseID, FatherID and
\* MotherID is the ID of a record the list already holds; a wife's ID is her
\* husband's ID plus one; a child's FatherID and MotherID are smaller than
\* the child's own ID.
C22_NoDanglingReference ==
  \A p \in 1..Len(characters) :
    /\ \A ref \in {characters[p].SpouseID, characters[p].FatherID, characters[p].MotherID} :
         ref # None => ref[1] \in IdsPresent
    /\ RoleOf(p) = "wife"
         => (RoleOf(p - 1) = "husband" /\ characters[p].ID = characters[p - 1].ID + 1)
    /\ RoleOf(p) \in {"son", "daughter"}
         => /\ characters[p].FatherID # None
            /\ characters[p].MotherID # None
            /\ characters[p].FatherID[1] < characters[p].ID
            /\ characters[p].MotherID[1] < characters[p].ID

C22_Witness ==
  /\ pc = "link_wife"
  /\ fi = 2
  /\ Len(characters) = 8
  /\ characters[7].SpouseID = Some(8)
  /\ characters[8].SpouseID = None
  /\ characters[6].FatherID = Some(1)
  /\ characters[6].MotherID = Some(2)

\* C23: in the returned output SpouseID is non-null exactly in the husband
\* and wife records, and FatherID and MotherID are non-null exactly in the
\* son and daughter records.
C23_ReferencesByRole ==
  Finished =>
    \A p \in 1..Len(Out) :
      /\ (Out[p].SpouseID # None) <=> (RoleOf(p) \in {"husband", "wife"})
      /\ (Out[p].FatherID # None) <=> (RoleOf(p) \in {"son", "daughter"})
      /\ (Out[p].MotherID # None) <=> (RoleOf(p) \in {"son", "daughter"})

C23_Witness ==
  /\ Finished
  /\ Len(Out) = 6 * MaxFamilies
  /\ Out[1].SpouseID # None
  /\ Out[1].FatherID = None
  /\ Out[2].MotherID = None
  /\ Out[3].SpouseID = None
  /\ Out[3].FatherID # None
  /\ Out[6].MotherID # None

====
